---- MODULE Spec2Model ----
(***************************************************************************)
(* Model of the two Kaggle solutions of this repository:                   *)
(*   - binary-classification-with-bank-churn: the feature pipeline         *)
(*     (utils/utils.py), the k-fold trainer and main (main.py), the        *)
(*     parameter override (model/model.py) and the search objective's      *)
(*     sampled keys (model/hyperparamter_tuning.py);                       *)
(*   - digit-recognizer: columns_to_image and the early-stopping loop      *)
(*     (main.py).                                                          *)
(* A DataFrame is a record [index, columns, rows]: index is the sequence   *)
(* of row labels, columns the sequence of column names, rows[i] a function *)
(* from column name to cell.  Library objects (sklearn transformers) live  *)
(* in a heap that maps an object's identity to its fitted state.           *)
(***************************************************************************)
EXTENDS Integers, Sequences, FiniteSets, TLC

\* ------------------------------------------------------------------ bounds
MaxRows == 3
MaxFolds == 3
MaxEpochs == 4
MaxLossLevel == 4
MaxTrials == 3
MaxPixel == 1

\* ------------------------------------------------------- generic helpers
Range(s) == {s[i] : i \in DOMAIN s}

Min2(a, b) == IF a <= b THEN a ELSE b

Max2(a, b) == IF a >= b THEN a ELSE b

Abs(a) == IF a < 0 THEN -a ELSE a

RECURSIVE Gcd(_, _)
Gcd(a, b) == IF b = 0 THEN a ELSE Gcd(b, a % b)

\* a float quotient num/den kept exact: reduced fraction, den = 0 for inf/nan
Ratio(num, den) ==
  IF den = 0 THEN [num |-> IF num > 0 THEN 1 ELSE IF num < 0 THEN -1 ELSE 0, den |-> 0]
  ELSE LET s == IF den < 0 THEN -1 ELSE 1
           g == Gcd(Abs(num), Abs(den))
       IN [num |-> (s * num) \div g, den |-> (s * den) \div g]

RECURSIVE SumSeq(_)
SumSeq(s) == IF s = <<>> THEN 0 ELSE Head(s) + SumSeq(Tail(s))

\* numpy.round of a / b (round half to even), then astype("int")
RoundHalfEven(a, b) ==
  LET q == a \div b
      r == a % b
  IN IF 2 * r < b THEN q
     ELSE IF 2 * r > b THEN q + 1
     ELSE IF q % 2 = 0 THEN q ELSE q + 1

\* ------------------------------------------------------------ DataFrames
\* a function as a stored table of its values (pandas holds a frame's cells;
\* it does not recompute them on access)
Stored(f) == f @@ <<>>

NoFrame == [index |-> <<>>, columns |-> <<>>, rows |-> <<>>]

Has(df, c) == c \in Range(df.columns)

HasAll(df, cs) == \A i \in DOMAIN cs : Has(df, cs[i])

Column(df, c) == Stored([i \in DOMAIN df.rows |-> df.rows[i][c]])

\* df[name] = vals (column assignment in place; a new column goes last)
SetColumn(df, name, vals) ==
  [index |-> df.index,
   columns |-> IF Has(df, name) THEN df.columns ELSE Append(df.columns, name),
   rows |-> Stored([i \in DOMAIN df.rows |-> (name :> vals[i]) @@ df.rows[i]])]

\* df.drop(features, axis=1): a new frame without the columns
DropColumns(df, features) ==
  LET Keep(c) == c \notin Range(features)
      cols == SelectSeq(df.columns, Keep)
  IN [index |-> df.index,
      columns |-> cols,
      rows |-> Stored([i \in DOMAIN df.rows |->
                         Stored([c \in DOMAIN df.rows[i] \ Range(features) |->
                                   df.rows[i][c]])])]

\* df[features]: a new frame with just these columns, in the order asked
SelectColumns(df, features) ==
  [index |-> df.index,
   columns |-> features,
   rows |-> Stored([i \in DOMAIN df.rows |->
                      Stored([c \in Range(features) |-> df.rows[i][c]])])]

\* position of the first row labelled l, 0 when there is none
RECURSIVE Locate(_, _, _)
Locate(index, l, from) ==
  IF from > Len(index) THEN 0
  ELSE IF index[from] = l THEN from
  ELSE Locate(index, l, from + 1)

\* pd.concat([a, b], axis=1): rows are joined on their index labels (outer
\* join); equal indexes are kept as they are, otherwise the labels of a are
\* followed by the labels only b has.  A cell that a frame lacks for a label
\* is NaN: the row has no value for that column
ConcatColumns(a, b) ==
  LET NotInA(l) == l \notin Range(a.index)
      index == IF a.index = b.index THEN a.index
               ELSE a.index \o SelectSeq(b.index, NotInA)
      RowOf(df, l) == LET p == Locate(df.index, l, 1)
                      IN IF p = 0 THEN <<>> ELSE df.rows[p]
  IN [index |-> index,
      columns |-> a.columns \o b.columns,
      rows |-> IF a.index = b.index
               THEN Stored([i \in DOMAIN index |-> a.rows[i] @@ b.rows[i]])
               ELSE Stored([i \in DOMAIN index |->
                              RowOf(a, index[i]) @@ RowOf(b, index[i])])]

\* the frame with its row labels left as they are
ResetIndex_skipped(df) == df

\* df.reset_index(drop=True): the labels become 0 .. n-1
ResetIndex(df) ==
  [index |-> Stored([i \in DOMAIN df.index |-> i - 1]),
   columns |-> df.columns,
   rows |-> df.rows]

\* df.iloc[positions] (0-based positions): the rows keep their labels
Iloc(df, positions) ==
  [index |-> Stored([i \in DOMAIN positions |-> df.index[positions[i] + 1]]),
   columns |-> df.columns,
   rows |-> Stored([i \in DOMAIN positions |-> df.rows[positions[i] + 1]])]

\* ------------------------------------------------ utils.py: the objects
\* the two objects that data_pipeline's default arguments are bound to: the
\* module-level DEFAULT_PIPELINE and the MinMaxScaler() that the def
\* statement evaluates once
DEFAULT_PIPELINE == "DEFAULT_PIPELINE"

DEFAULT_SCALER == "data_pipeline.scaler"

UnfittedEncoder ==
  [fitted |-> FALSE, rows |-> <<>>,
   params |-> [Surname |-> <<>>, SurGeoGendSal |-> <<>>]]

UnfittedScaler ==
  [fitted |-> FALSE, rows |-> <<>>,
   params |-> [data_min |-> <<>>, data_max |-> <<>>]]

Ok(df) == [ok |-> TRUE, err |-> "", df |-> df]

Raise(err, df) == [ok |-> FALSE, err |-> err, df |-> df]

\* the derived columns of engineer_features, each from one row's raw cells
SurnameLength(r) == Len(r["Surname"])

AgeCategory(r) == RoundHalfEven(r["Age"], 20)

IsSenior(r) == IF r["Age"] >= 60 THEN 1 ELSE 0

IsActiveByCrCard(r) == r["HasCrCard"] * r["IsActiveMember"]

ProductsPerTenure(r) == Ratio(r["Tenure"], r["NumOfProducts"])

SurGeoGendSal(r) ==
  ToString(r["CustomerId"]) \o r["Surname"] \o r["Geography"] \o r["Gender"]
    \o ToString(r["EstimatedSalary"]) \o ".0"

\* the value a statement of engineer_features computes for row r
Derived(name, r) ==
  CASE name = "SurnameLength" -> SurnameLength(r)
    [] name = "AgeCategory" -> AgeCategory(r)
    [] name = "IsSenior" -> IsSenior(r)
    [] name = "IsActiveByCrCard" -> IsActiveByCrCard(r)
    [] name = "ProductsPerTenure" -> ProductsPerTenure(r)
    [] name = "SurGeoGendSal" -> SurGeoGendSal(r)

\* one statement  df[name] = f(df[needs])  of engineer_features
Assign(res, needs, name) ==
  IF ~res.ok THEN res
  ELSE IF ~HasAll(res.df, needs) THEN Raise("KeyError", res.df)
  ELSE Ok(SetColumn(res.df, name,
                    Stored([i \in DOMAIN res.df.rows |-> Derived(name, res.df.rows[i])])))

\* the six statements of engineer_features, lines 41-52
DerivedColumns(df) ==
  LET s1 == Assign(Ok(df), <<"Surname">>, "SurnameLength")
      s2 == Assign(s1, <<"Age">>, "AgeCategory")
      s3 == Assign(s2, <<"Age">>, "IsSenior")
      s4 == Assign(s3, <<"HasCrCard", "IsActiveMember">>, "IsActiveByCrCard")
      s5 == Assign(s4, <<"Tenure", "NumOfProducts">>, "ProductsPerTenure")
  IN Assign(s5, <<"CustomerId", "Surname", "Geography", "Gender", "EstimatedSalary">>,
            "SurGeoGendSal")

\* engineer_features with the age bin also written back into the raw Age column
engineer_features_rebins_age(df) ==
  LET Rebin(res) ==
        IF ~res.ok THEN res
        ELSE Ok(SetColumn(res.df, "Age",
                          Stored([i \in DOMAIN res.df.rows |-> AgeCategory(res.df.rows[i])])))
  IN Rebin(DerivedColumns(df))

\* engineer_features writes six derived columns into the frame it is given
\* and returns that frame
engineer_features(df) == DerivedColumns(df)

EncodedFeatures == <<"Geography", "Gender", "NumOfProducts", "AgeCategory">>

TextColumns == <<"Surname", "SurGeoGendSal">>

\* the values of a categorical feature in pandas' sorted order
SortedLevels(f) ==
  CASE f = "Geography" -> <<"France", "Germany", "Spain">>
    [] f = "Gender" -> <<"Female", "Male">>
    [] f = "NumOfProducts" -> <<0, 1, 2, 3, 4>>
    [] OTHER -> <<0, 1, 2, 3, 4, 5>>

DummyName(f, v) ==
  f \o "_" \o (IF f \in {"Geography", "Gender"} THEN v ELSE ToString(v))

\* the dummy columns pd.get_dummies makes for feature f: one per value that
\* occurs in this frame
DummiesOf(df, f) ==
  LET Occurs(v) == \E i \in DOMAIN df.rows : df.rows[i][f] = v
      levels == SelectSeq(SortedLevels(f), Occurs)
  IN Stored([k \in DOMAIN levels |-> [name |-> DummyName(f, levels[k]), feature |-> f,
                                      value |-> levels[k]]])

RECURSIVE AllDummies(_, _)
AllDummies(df, features) ==
  IF features = <<>> THEN <<>>
  ELSE DummiesOf(df, Head(features)) \o AllDummies(df, Tail(features))

\* pd.get_dummies(df[features], columns=features), then
\* .apply(lambda x: x.astype("category").cat.codes): a cell is the rank of its
\* boolean among the booleans that occur in its column
get_dummies_codes(df, features) ==
  LET dummies == AllDummies(df, features)
      Flag(i, d) == df.rows[i][d.feature] = d.value
      Code(i, d) == IF Flag(i, d) /\ (\E j \in DOMAIN df.rows : ~Flag(j, d)) THEN 1 ELSE 0
      ByName(c) == CHOOSE k \in DOMAIN dummies : dummies[k].name = c
  IN [index |-> df.index,
      columns |-> Stored([k \in DOMAIN dummies |-> dummies[k].name]),
      rows |-> Stored([i \in DOMAIN df.rows |->
                         Stored([c \in {dummies[k].name : k \in DOMAIN dummies} |->
                                   Code(i, dummies[ByName(c)])])])]

\* ColumnTransformer.fit on df[["Surname", "SurGeoGendSal"]]
FitEncoder(state, df) ==
  [fitted |-> TRUE, rows |-> df.index,
   params |-> [Surname |-> Column(df, "Surname"),
               SurGeoGendSal |-> Column(df, "SurGeoGendSal")]]

\* ColumnTransformer.transform: three components per text column, each a
\* function of the fitted vocabulary and of the row's own text
TransformEncoder(state, df) ==
  LET cols == Stored([k \in 1..6 |-> "TextEmbedding" \o ToString(k - 1)])
      Source(k) == IF k <= 3 THEN "Surname" ELSE "SurGeoGendSal"
      Pos(c) == CHOOSE k \in 1..6 : cols[k] = c
  IN [index |-> Stored([i \in DOMAIN df.index |-> i - 1]),
      columns |-> cols,
      rows |-> Stored([i \in DOMAIN df.rows |->
                         Stored([c \in Range(cols) |->
                                   [component |-> (Pos(c) - 1) % 3,
                                    text |-> df.rows[i][Source(Pos(c))],
                                    fit |-> state.params[Source(Pos(c))]]])])]

Event(op, obj, df) == [op |-> op, obj |-> obj, rows |-> df.index]

StepFailed(err, h, calls) ==
  [ok |-> FALSE, err |-> err, df |-> NoFrame, heap |-> h, calls |-> calls]

\* lines 78-80 of encode_features: the frame and the embedding columns side
\* by side, both relabelled 0 .. n-1
WithEmbedding(df, name_components) == ConcatColumns(ResetIndex(df), name_components)

\* lines 70-80 of encode_features: the categorical features replaced by their
\* dummy codes, then the text embedding appended
EncodedFrame(df, df_encoded, state) ==
  WithEmbedding(DropColumns(ConcatColumns(df, df_encoded), EncodedFeatures),
                TransformEncoder(state, df))

\* encode_features from line 70 on; h and calls are the heap and the calls
\* made once the if of line 67 is past
EncodeAfterFit(df, encoder, h, calls) ==
  IF ~HasAll(df, EncodedFeatures) THEN StepFailed("KeyError", h, calls)
  ELSE IF ~h[encoder].fitted
    THEN StepFailed("NotFittedError", h, Append(calls, Event("transform", encoder, df)))
  ELSE [ok |-> TRUE, err |-> "",
        df |-> EncodedFrame(df, get_dummies_codes(df, EncodedFeatures), h[encoder]),
        heap |-> h, calls |-> Append(calls, Event("transform", encoder, df))]

\* encode_features(df, is_train, encoder): [ok, err, df, heap, calls]
encode_features(df, is_train, encoder, heap) ==
  IF ~HasAll(df, TextColumns) THEN StepFailed("KeyError", heap, <<>>)
  ELSE IF ~is_train THEN EncodeAfterFit(df, encoder, heap, <<>>)
  ELSE IF Len(df.rows) = 0
    THEN StepFailed("ValueError", heap, <<Event("fit", encoder, df)>>)
  ELSE EncodeAfterFit(df, encoder, [heap EXCEPT ![encoder] = FitEncoder(@, df)],
                      <<Event("fit", encoder, df)>>)

DroppedFeatures == <<"id", "CustomerId", "Surname", "SurGeoGendSal">>

\* drop_features(df): a new frame without the identifier and text columns
drop_features(df) ==
  IF ~HasAll(df, DroppedFeatures) THEN Raise("KeyError", df)
  ELSE Ok(DropColumns(df, DroppedFeatures))

ScaledFeatures == <<"CreditScore", "Age", "Balance", "EstimatedSalary">>

\* the values column c holds (NaN cells hold none)
Values(df, c) == {df.rows[i][c] : i \in {j \in DOMAIN df.rows : c \in DOMAIN df.rows[j]}}

MinOf(S) == CHOOSE v \in S : \A w \in S : v <= w

MaxOf(S) == CHOOSE v \in S : \A w \in S : v >= w

\* MinMaxScaler.fit on df[features]
FitScaler(state, df) ==
  [fitted |-> TRUE, rows |-> df.index,
   params |-> [data_min |-> Stored([k \in DOMAIN ScaledFeatures |->
                                      MinOf(Values(df, ScaledFeatures[k]))]),
               data_max |-> Stored([k \in DOMAIN ScaledFeatures |->
                                      MaxOf(Values(df, ScaledFeatures[k]))])]]

\* MinMaxScaler.transform of one cell of feature k: (x - min) / (max - min),
\* the range taken as 1 when it is 0
ScaleCell(state, k, x) ==
  LET lo == state.params.data_min[k]
      hi == state.params.data_max[k]
  IN Ratio(x - lo, IF hi = lo THEN 1 ELSE hi - lo)

\* df[features] = scaler.transform(df[features]); a NaN cell stays NaN
SetScaled(df, state) ==
  LET K(c) == CHOOSE k \in DOMAIN ScaledFeatures : ScaledFeatures[k] = c
  IN [index |-> df.index,
      columns |-> df.columns,
      rows |-> Stored([i \in DOMAIN df.rows |->
                         Stored([c \in DOMAIN df.rows[i] |->
                                   IF c \in Range(ScaledFeatures)
                                   THEN ScaleCell(state, K(c), df.rows[i][c])
                                   ELSE df.rows[i][c]])])]

\* standardize_features from line 109 on; h and calls are the heap and the
\* calls made once the if of line 106 is past
ScaleAfterFit(df, scaler, h, calls) ==
  IF ~h[scaler].fitted
  THEN StepFailed("NotFittedError", h, Append(calls, Event("transform", scaler, df)))
  ELSE [ok |-> TRUE, err |-> "", df |-> SetScaled(df, h[scaler]),
        heap |-> h, calls |-> Append(calls, Event("transform", scaler, df))]

\* the scaler fit on whatever frame it is given, is_train or not
standardize_features_always_fits(df, is_train, scaler, heap) ==
  IF ~HasAll(df, ScaledFeatures) THEN StepFailed("KeyError", heap, <<>>)
  ELSE IF Len(df.rows) = 0
    THEN StepFailed("ValueError", heap, <<Event("fit", scaler, df)>>)
  ELSE ScaleAfterFit(df, scaler, [heap EXCEPT ![scaler] = FitScaler(@, df)],
                     <<Event("fit", scaler, df)>>)

\* standardize_features(df, is_train, scaler): [ok, err, df, heap, calls]
standardize_features(df, is_train, scaler, heap) ==
  IF ~HasAll(df, ScaledFeatures) THEN StepFailed("KeyError", heap, <<>>)
  ELSE IF ~is_train THEN ScaleAfterFit(df, scaler, heap, <<>>)
  ELSE IF Len(df.rows) = 0
    THEN StepFailed("ValueError", heap, <<Event("fit", scaler, df)>>)
  ELSE ScaleAfterFit(df, scaler, [heap EXCEPT ![scaler] = FitScaler(@, df)],
                     <<Event("fit", scaler, df)>>)

\* what a data_pipeline call leaves: caller is the frame the caller passed, as
\* engineer_features left it; out is the returned matrix
Returned(ok, err, caller, out, encoder, scaler, h, calls) ==
  [ok |-> ok, err |-> err, caller |-> caller, out |-> out,
   encoder |-> encoder, scaler |-> scaler, heap |-> h, calls |-> calls]

\* data_pipeline from line 36 on: c is what encode_features did, d what
\* drop_features returned
PipelineAfterDrop(caller, c, d, is_train, scaler, encoder) ==
  IF ~d.ok
  THEN Returned(FALSE, d.err, caller, NoFrame, encoder, scaler, c.heap, c.calls)
  ELSE LET Done(st) == Returned(st.ok, st.err, caller, st.df, encoder, scaler, st.heap,
                                c.calls \o st.calls)
       IN Done(standardize_features(d.df, is_train, scaler, c.heap))

\* data_pipeline from line 35 on
PipelineAfterEncode(caller, c, is_train, scaler, encoder) ==
  IF ~c.ok
  THEN Returned(FALSE, c.err, caller, NoFrame, encoder, scaler, c.heap, c.calls)
  ELSE PipelineAfterDrop(caller, c, drop_features(c.df), is_train, scaler, encoder)

\* data_pipeline from line 34 on: e is what engineer_features did
PipelineAfterEngineer(e, is_train, scaler, encoder, heap) ==
  IF ~e.ok
  THEN Returned(FALSE, e.err, e.df, NoFrame, encoder, scaler, heap, <<>>)
  ELSE PipelineAfterEncode(e.df, encode_features(e.df, is_train, encoder, heap),
                           is_train, scaler, encoder)

\* data_pipeline(df, is_train, scaler, encoder)
data_pipeline(df, is_train, scaler, encoder, heap) ==
  PipelineAfterEngineer(engineer_features(df), is_train, scaler, encoder, heap)

\* --------------------------------------------------------- the input data
RawColumns ==
  <<"id", "CustomerId", "Surname", "CreditScore", "Geography", "Gender", "Age",
    "Tenure", "Balance", "NumOfProducts", "HasCrCard", "IsActiveMember",
    "EstimatedSalary">>

Customer(id, cid, surname, credit, geo, gender, age, tenure, balance, products, card, active, salary) ==
  Stored([c \in Range(RawColumns) |->
     CASE c = "id" -> id
       [] c = "CustomerId" -> cid
       [] c = "Surname" -> surname
       [] c = "CreditScore" -> credit
       [] c = "Geography" -> geo
       [] c = "Gender" -> gender
       [] c = "Age" -> age
       [] c = "Tenure" -> tenure
       [] c = "Balance" -> balance
       [] c = "NumOfProducts" -> products
       [] c = "HasCrCard" -> card
       [] c = "IsActiveMember" -> active
       [] OTHER -> salary])

\* rows of train.csv (without the label) and of test.csv
TrainRows ==
  <<Customer(0, 101, "Hill", 600, "France", "Male", 30, 2, 0, 1, 1, 1, 50),
    Customer(1, 102, "Okafor", 700, "Germany", "Female", 70, 4, 100, 2, 0, 1, 80),
    Customer(2, 103, "Li", 650, "Spain", "Male", 50, 0, 50, 1, 1, 0, 20),
    Customer(3, 104, "Hill", 720, "France", "Female", 41, 3, 75, 3, 1, 1, 65),
    Customer(4, 105, "Nwosu", 580, "Germany", "Male", 62, 1, 10, 2, 0, 0, 30),
    Customer(5, 106, "Okafor", 640, "Spain", "Female", 28, 5, 60, 1, 1, 1, 45)>>

TestRows ==
  <<Customer(10, 201, "Li", 610, "France", "Female", 35, 5, 20, 1, 1, 1, 40),
    Customer(11, 202, "Moore", 690, "Spain", "Male", 64, 2, 90, 2, 1, 0, 70)>>

\* pd.read_csv: a frame of the first n rows, labelled 0 .. n-1
ReadCsv(rows, n) ==
  [index |-> Stored([i \in 1..n |-> i - 1]),
   columns |-> RawColumns,
   rows |-> Stored([i \in 1..n |-> rows[i]])]

\* the 0-based positions 0 .. n-1 that are in S, ascending
Positions(n, S) == LET Test(i) == i \in S IN SelectSeq([i \in 1..n |-> i - 1], Test)

None == "None"

\* ------------------------------------------- model/model.py: parameters
\* A parameter value is an opaque token (get_parameters only copies values).
\* A key of the saved trial is the sequence of its pieces, each "_" a piece
\* of its own, so that "vc___weight" is <<"vc", "_", "_", "_", "weight">>.
Entry(k, v) == [key |-> k, value |-> v]

Lookup(dict, k) == dict[CHOOSE i \in DOMAIN dict : dict[i].key = k].value

Keys(dict) == {dict[i].key : i \in DOMAIN dict}

\* dict[k] = v: an existing key keeps its place, a new key goes last
SetItem(dict, k, v) ==
  IF k \in Keys(dict)
  THEN Stored([i \in DOMAIN dict |-> IF dict[i].key = k THEN Entry(k, v) ELSE dict[i]])
  ELSE Append(dict, Entry(k, v))

\* the default dictionaries of get_parameters
DefaultParams ==
  [lgbm |-> <<Entry("verbose", "-1"), Entry("random_state", "503"),
              Entry("force_row_wise", "True"), Entry("n_estimators", "960"),
              Entry("subsample", "0.4604756677696442"),
              Entry("colsample_bytree", "0.465375841230126"),
              Entry("learning_rate", "0.04531704129811222"),
              Entry("max_depth", "6"), Entry("num_leaves", "803"),
              Entry("reg_alpha", "0.4132098753297654"),
              Entry("reg_lambda", "0.9992674466487466")>>,
   xgb |-> <<Entry("verbosity", "0"), Entry("random_state", "503"),
             Entry("objective", "binary:logistic"), Entry("n_estimators", "973"),
             Entry("learning_rate", "0.0786311558099196"), Entry("max_depth", "9"),
             Entry("subsample", "0.6451633803299511"),
             Entry("colsample_bytree", "0.20800229296622322"),
             Entry("min_child_weight", "11")>>,
   cat |-> <<Entry("verbose", "False"), Entry("random_state", "503"),
             Entry("iterations", "1395"),
             Entry("learning_rate", "0.025092883785253036"), Entry("depth", "6"),
             Entry("subsample", "0.32039321811073496"),
             Entry("colsample_bylevel", "0.47765607925544096"),
             Entry("min_data_in_leaf", "30")>>,
   vc |-> <<Entry("voting", "soft"), Entry("n_jobs", "-1"), Entry("verbose", "False"),
            Entry("weights",
                  <<"3.0146183474429327", "0.5762900154092979", "1.5605382149604368">>)>>]

Models == {"lgbm", "xgb", "cat", "vc"}

U == "_"

\* the names trial.suggest_* is called with, in the order _optimize calls them
SampledKeys ==
  <<<<"lgbm", U, U, "n", U, "estimators">>, <<"lgbm", U, U, "subsample">>,
    <<"lgbm", U, U, "colsample", U, "bytree">>, <<"lgbm", U, U, "learning", U, "rate">>,
    <<"lgbm", U, U, "max", U, "depth">>, <<"lgbm", U, U, "num", U, "leaves">>,
    <<"lgbm", U, U, "reg", U, "alpha">>, <<"lgbm", U, U, "reg", U, "lambda">>,
    <<"xgb", U, U, "n", U, "estimators">>, <<"xgb", U, U, "learning", U, "rate">>,
    <<"xgb", U, U, "max", U, "depth">>, <<"xgb", U, U, "subsample">>,
    <<"xgb", U, U, "colsample", U, "bytree">>,
    <<"xgb", U, U, "min", U, "child", U, "weight">>,
    <<"cat", U, U, "iterations">>, <<"cat", U, U, "learning", U, "rate">>,
    <<"cat", U, U, "depth">>, <<"cat", U, U, "subsample">>,
    <<"cat", U, U, "colsample", U, "bylevel">>,
    <<"cat", U, U, "min", U, "data", U, "in", U, "leaf">>,
    <<"vc", U, U, "lgbm", U, "weight">>, <<"vc", U, U, "xgb", U, "weight">>,
    <<"vc", U, U, U, "weight">>>>

\* the three names the objective samples the soft-voting weights under
WeightKeys ==
  <<<<"vc", U, U, "lgbm", U, "weight">>, <<"vc", U, U, "xgb", U, "weight">>,
    <<"vc", U, U, U, "weight">>>>

\* str.split("__"): the pieces between the non-overlapping occurrences of
\* "__", found from the left
RECURSIVE SplitDunder(_, _)
SplitDunder(key, part) ==
  IF key = <<>> THEN <<part>>
  ELSE IF Len(key) >= 2 /\ key[1] = U /\ key[2] = U
    THEN <<part>> \o SplitDunder(SubSeq(key, 3, Len(key)), <<>>)
  ELSE SplitDunder(Tail(key), Append(part, Head(key)))

\* the text of a piece sequence
RECURSIVE Join(_)
Join(part) == IF part = <<>> THEN "" ELSE Head(part) \o Join(Tail(part))

\* the loop of get_parameters over the items of the loaded trial, from item i
RECURSIVE ApplyOverrides(_, _, _)
ApplyOverrides(param_dict, items, i) ==
  IF i > Len(items) THEN [ok |-> TRUE, err |-> "", param_dict |-> param_dict]
  ELSE
    LET parts == SplitDunder(items[i].key, <<>>)
    IN IF Len(parts) # 2
         THEN [ok |-> FALSE, err |-> "ValueError", param_dict |-> param_dict]
       ELSE IF Join(parts[1]) \notin Models
         THEN [ok |-> FALSE, err |-> "KeyError", param_dict |-> param_dict]
       ELSE ApplyOverrides(
              [param_dict EXCEPT ![Join(parts[1])] =
                 SetItem(@, Join(parts[2]), items[i].value)],
              items, i + 1)

\* no file at the path
NoFile == <<>>

\* get_parameters(hyperparameters); file is what joblib.load finds at the path
get_parameters(hyperparameters, file) ==
  IF hyperparameters = None
  THEN [ok |-> TRUE, err |-> "", param_dict |-> DefaultParams]
  ELSE IF file = NoFile
    THEN [ok |-> FALSE, err |-> "FileNotFoundError", param_dict |-> DefaultParams]
  ELSE ApplyOverrides(DefaultParams, file, 1)

\* the keyword arguments VotingClassifier.__init__ takes besides estimators
VotingClassifierKeywords == {"voting", "weights", "n_jobs", "flatten_transform", "verbose"}

\* build_model(hyperparameters): the three boosted models take any keyword;
\* VotingClassifier(**params["vc"]) raises TypeError on one it does not know
build_model(hyperparameters, file) ==
  LET p == get_parameters(hyperparameters, file)
  IN IF ~p.ok THEN [ok |-> FALSE, err |-> p.err, params |-> p.param_dict]
     ELSE IF ~(Keys(p.param_dict.vc) \subseteq VotingClassifierKeywords)
       THEN [ok |-> FALSE, err |-> "TypeError", params |-> p.param_dict]
     ELSE [ok |-> TRUE, err |-> "", params |-> p.param_dict]

\* ------------------------------------------------ digit-recognizer/main.py
ImageSide == 28

\* numpy reshape in C order: the sequence cut into consecutive rows of n cells
RECURSIVE RowsOf(_, _)
RowsOf(cells, n) ==
  IF Len(cells) < n THEN <<>>
  ELSE <<SubSeq(cells, 1, n)>> \o RowsOf(SubSeq(cells, n + 1, Len(cells)), n)

\* reshape in Fortran order: cell (r, c) is cell r + n * c of the sequence
columns_to_image_column_major(columns) ==
  IF Len(columns) # ImageSide * ImageSide THEN [ok |-> FALSE, image |-> <<>>]
  ELSE [ok |-> TRUE,
        image |-> Stored([r \in 1..ImageSide |->
                   Stored([c \in 1..ImageSide |-> columns[r + ImageSide * (c - 1)]])])]

\* columns_to_image(columns): np.array(columns).reshape((28, 28)), which
\* raises ValueError unless there are 28 * 28 items
columns_to_image(columns) ==
  IF Len(columns) # ImageSide * ImageSide THEN [ok |-> FALSE, image |-> <<>>]
  ELSE [ok |-> TRUE, image |-> RowsOf(columns, ImageSide)]

\* the value best_validation_loss starts from
InitialBestLoss == 1000000

\* the body of the epoch loop after train_one_epoch returned val_loss
EarlyStopping(best, val_loss) ==
  IF val_loss >= best THEN [break |-> TRUE, best |-> best]
  ELSE [break |-> FALSE, best |-> val_loss]

\* ---------------------------------------------------------------- state
VARIABLES
  heap,          \* transformer object -> its fitted state
  frames,        \* pipeline caller: the caller's two record sets
  cur,           \* pipeline caller: the data_pipeline call just made
  hyperparameters, study_file, built,   \* build_model: argument, saved study, result
  num_epochs, epoch, best_validation_loss, val_losses, loop,   \* digit training loop
  columns, image,  \* columns_to_image: argument and result
  pc,            \* main: the statement main.py is at
  optimize,      \* main: args.optimize
  X, X_test,     \* main: the frames main passes to kfold_prediction
  num_folds, test_folds, fold_idx,   \* kfold_prediction: the split and the loop
  X_train, X_val, test,              \* kfold_prediction: the fold's matrices
  encoder, scaler,                   \* kfold_prediction: the fold's transformers
  test_predictions,                  \* kfold_prediction: the (fold, row) table
  predicted,     \* what model.predict_proba(test) returned, fold by fold
  events,        \* every fit and transform call made, in order
  search_runs,   \* how many times optimize ran
  search,        \* optimize: the objective's split, the trial and the fold it is at
  validated,     \* the validation split scored last and the calls that transformed it
  df_final, submission, error

NoCall == [made |-> FALSE]

\* optimize is not running
NoSearch == [folds |-> <<>>, trial |-> 0, fold |-> 0]

pipeVars == <<frames, cur>>

paramVars == <<hyperparameters, study_file, built>>

trainVars == <<num_epochs, epoch, best_validation_loss, val_losses, loop>>

imageVars == <<columns, image>>

mainVars ==
  <<pc, optimize, X, X_test, num_folds, test_folds, fold_idx, X_train, X_val, test,
    encoder, scaler, test_predictions, predicted, events, search_runs, search,
    validated, df_final, submission, error>>

vars == <<heap, pipeVars, paramVars, trainVars, imageVars, mainVars>>

\* the parts of the repository a specification leaves out stay as they are at
\* import time
IdlePipeline == frames = <<>> /\ cur = NoCall

IdleParams == hyperparameters = None /\ study_file = NoFile /\ built = NoCall

IdleTraining ==
  /\ num_epochs = 0 /\ epoch = 0 /\ best_validation_loss = InitialBestLoss
  /\ val_losses = <<>> /\ loop = "idle"

IdleImage == columns = <<>> /\ image = NoCall

IdleKfold ==
  /\ test_folds = <<>> /\ fold_idx = 0
  /\ X_train = NoFrame /\ X_val = NoFrame /\ test = NoFrame
  /\ encoder = None /\ scaler = None
  /\ test_predictions = <<>> /\ predicted = <<>> /\ events = <<>>
  /\ search_runs = 0 /\ search = NoSearch /\ validated = NoCall
  /\ df_final = NoFrame /\ submission = NoFrame /\ error = ""

IdleMain ==
  /\ pc = "idle" /\ optimize = FALSE /\ X = NoFrame /\ X_test = NoFrame
  /\ num_folds = 0 /\ IdleKfold

Encoders == {DEFAULT_PIPELINE, "encoder1"}

Scalers == {DEFAULT_SCALER, "scaler1"}

\* at import time no transformer has been fit
InitHeap ==
  heap = [o \in Encoders \cup Scalers |->
            IF o \in Encoders THEN UnfittedEncoder ELSE UnfittedScaler]

\* ------------------------------------------- a caller of data_pipeline
\* the caller holds two slices of the table that share no row: a holds row 0
\* and b the rows a lacks, as a fold's training and validation slices do
InitPipeline ==
  /\ InitHeap
  /\ \E n \in 2..MaxRows : \E S \in SUBSET (0..(n - 1)) :
       /\ 0 \in S /\ S # 0..(n - 1)
       /\ frames = [a |-> Iloc(ReadCsv(TrainRows, n), Positions(n, S)),
                    b |-> Iloc(ReadCsv(TrainRows, n), Positions(n, (0..(n - 1)) \ S))]
  /\ cur = NoCall
  /\ IdleParams /\ IdleTraining /\ IdleImage /\ IdleMain

\* data_pipeline(frames[f], is_train, [scaler=...], [encoder=...]); an
\* argument left out (None here) is bound to the default object.  cur.twice
\* says that this call repeats the call before it (same record set, same
\* transformers, both with is_train=False); cur.first is then that call
CallDataPipeline(f, is_train, scaler_arg, encoder_arg) ==
  \E sc \in {IF scaler_arg = None THEN DEFAULT_SCALER ELSE scaler_arg},
     enc \in {IF encoder_arg = None THEN DEFAULT_PIPELINE ELSE encoder_arg} :
   \E r \in {data_pipeline(frames[f], is_train, sc, enc, heap)},
      twice \in {/\ cur.made /\ cur.ok /\ ~cur.is_train /\ ~is_train
                 /\ cur.frame = f /\ cur.scaler = sc /\ cur.encoder = enc} :
     /\ heap' = r.heap
     /\ UNCHANGED <<paramVars, trainVars, imageVars, mainVars>>
     /\ frames' = [frames EXCEPT ![f] = r.caller]
     /\ cur' = [made |-> TRUE, frame |-> f, input |-> frames[f], is_train |-> is_train,
                scaler_arg |-> scaler_arg, encoder_arg |-> encoder_arg,
                scaler |-> sc, encoder |-> enc,
                before |-> <<heap[enc], heap[sc]>>,
                after |-> <<r.heap[enc], r.heap[sc]>>,
                ok |-> r.ok, err |-> r.err, out |-> r.out,
                twice |-> twice,
                first |-> IF twice THEN [out |-> cur.out, before |-> cur.before]
                          ELSE NoCall]

\* the caller passes both transformers or neither, as every call in main.py does
NextPipeline ==
  \E f \in {"a", "b"}, is_train \in BOOLEAN, supplied \in BOOLEAN :
    CallDataPipeline(f, is_train,
                     IF supplied THEN "scaler1" ELSE None,
                     IF supplied THEN "encoder1" ELSE None)

SpecPipeline == InitPipeline /\ [][NextPipeline]_vars

\* C3 (as claimed): a call with is_train=False that supplies no encoder and no
\* scaler fails, whatever calls came before it
C3_UnsuppliedTransformFails ==
  (cur.made /\ ~cur.is_train /\ cur.scaler_arg = None /\ cur.encoder_arg = None)
    => ~cur.ok

\* C4: the second of two data_pipeline calls on the same record set with
\* is_train=False and the same fitted encoder and scaler succeeds, returns the
\* matrix the first returned (same columns, same cells), and leaves both
\* transformers in the fitted state they had before the first call
C4_TransformTwiceIdentical ==
  (cur.made /\ cur.twice) =>
    /\ cur.ok
    /\ cur.out = cur.first.out
    /\ cur.after = cur.first.before

\* the second call has acted on a record set that already carries the derived
\* columns the first call wrote into it
C4_Witness ==
  /\ cur.made /\ cur.twice /\ cur.ok
  /\ Has(cur.input, "SurGeoGendSal")
  /\ Len(cur.out.rows) >= 2

\* C5: data_pipeline returns as many rows as it was given, and output row i
\* holds the features of input row i: its untouched columns, its derived
\* columns, its scaled columns and the embedding of its own text
C5_RowsPreserved ==
  (cur.made /\ cur.ok) =>
    /\ Len(cur.out.rows) = Len(cur.input.rows)
    /\ Len(cur.out.index) = Len(cur.input.rows)
    /\ \A i \in DOMAIN cur.input.rows :
         LET in == cur.input.rows[i]
             out == cur.out.rows[i]
         IN /\ cur.out.index[i] = i - 1
            /\ out["Tenure"] = in["Tenure"]
            /\ out["HasCrCard"] = in["HasCrCard"]
            /\ out["IsActiveMember"] = in["IsActiveMember"]
            /\ out["SurnameLength"] = Len(in["Surname"])
            /\ out["IsSenior"] = (IF in["Age"] >= 60 THEN 1 ELSE 0)
            /\ out["IsActiveByCrCard"] = in["HasCrCard"] * in["IsActiveMember"]
            /\ out["ProductsPerTenure"].num * in["NumOfProducts"]
                 = out["ProductsPerTenure"].den * in["Tenure"]
            /\ \A k \in DOMAIN ScaledFeatures :
                 LET lo == cur.after[2].params.data_min[k]
                     hi == cur.after[2].params.data_max[k]
                     cell == out[ScaledFeatures[k]]
                 IN cell.num * (IF hi = lo THEN 1 ELSE hi - lo)
                      = cell.den * (in[ScaledFeatures[k]] - lo)
            /\ out["TextEmbedding0"].text = in["Surname"]
            /\ out["TextEmbedding2"].text = in["Surname"]
            /\ \A c \in Range(cur.out.columns) :
                 /\ (\E v \in Range(SortedLevels("Geography")) :
                        c = DummyName("Geography", v) /\ out[c] = 1)
                      => c = DummyName("Geography", in["Geography"])
                 /\ (\E v \in Range(SortedLevels("NumOfProducts")) :
                        c = DummyName("NumOfProducts", v) /\ out[c] = 1)
                      => c = DummyName("NumOfProducts", in["NumOfProducts"])

\* a call has returned for a record set whose row labels are not 0 .. n-1
C5_Witness ==
  /\ cur.made /\ cur.ok
  /\ Len(cur.input.index) >= 2
  /\ \E i \in DOMAIN cur.input.index : cur.input.index[i] # i - 1

\* ------------------------------------------- build_model on a saved study
\* the study saved by a search whose best trial sampled, for each model, the
\* values of trial number t[model]
SavedStudy(t) ==
  LET value(key) == "trial" \o ToString(t[Head(key)]) \o ":" \o Join(key)
  IN Stored([i \in DOMAIN SampledKeys |-> Entry(SampledKeys[i], value(SampledKeys[i]))])

InitParams ==
  /\ InitHeap /\ IdlePipeline /\ IdleTraining /\ IdleImage /\ IdleMain
  /\ \E t \in [Models -> 1..MaxTrials] : study_file = SavedStudy(t)
  /\ hyperparameters \in {None, "./optuna_results.pkl"}
  /\ built = NoCall

BuildModel ==
  /\ ~built.made
  /\ built' = [made |-> TRUE] @@ build_model(hyperparameters, study_file)
  /\ UNCHANGED <<heap, pipeVars, trainVars, imageVars, mainVars, hyperparameters,
                 study_file>>

NextParams == BuildModel

SpecParams == InitParams /\ [][NextParams]_vars

\* C8 (as claimed): with a saved study loaded, build_model constructs the
\* ensemble; every sampled per-model parameter and each of the three sampled
\* weights replaces the default entry; every entry that was not sampled keeps
\* its default; no entry is added that VotingClassifier does not accept
C8_StudyOverridesDefaults ==
  (built.made /\ hyperparameters # None) =>
    /\ built.ok
    /\ \A i \in DOMAIN study_file :
         LET parts == SplitDunder(study_file[i].key, <<>>)
         IN Join(parts[1]) # "vc" =>
              Lookup(built.params[Join(parts[1])], Join(parts[2])) = study_file[i].value
    /\ Lookup(built.params.vc, "weights")
         = [k \in 1..3 |-> Lookup(study_file, WeightKeys[k])]
    /\ \A m \in Models :
         \A j \in DOMAIN DefaultParams[m] :
           LET k == DefaultParams[m][j].key
           IN (\A i \in DOMAIN study_file :
                 LET parts == SplitDunder(study_file[i].key, <<>>)
                 IN ~(Join(parts[1]) = m /\ Join(parts[2]) = k)
                    /\ ~(m = "vc" /\ k = "weights"))
                => Lookup(built.params[m], k) = DefaultParams[m][j].value
    /\ Keys(built.params.vc) \subseteq VotingClassifierKeywords

\* ------------------------------------------- the digit training loop
LossValues == (1..MaxLossLevel) \cup {InitialBestLoss}

InitTraining ==
  /\ InitHeap /\ IdlePipeline /\ IdleParams /\ IdleImage /\ IdleMain
  /\ num_epochs \in 1..MaxEpochs
  /\ epoch = 0
  /\ best_validation_loss = InitialBestLoss
  /\ val_losses = <<>>
  /\ loop = "running"

\* one turn of  for i in range(num_epochs): train_one_epoch returns a
\* validation loss, then the early-stopping test
Epoch(val_loss) ==
  LET r == EarlyStopping(best_validation_loss, val_loss)
  IN /\ loop = "running"
     /\ epoch < num_epochs
     /\ val_losses' = Append(val_losses, val_loss)
     /\ best_validation_loss' = r.best
     /\ epoch' = IF r.break THEN epoch ELSE epoch + 1
     /\ loop' = IF r.break THEN "stopped early" ELSE "running"
     /\ UNCHANGED <<heap, pipeVars, paramVars, imageVars, mainVars, num_epochs>>

\* range(num_epochs) is exhausted
LoopEnds ==
  /\ loop = "running"
  /\ epoch = num_epochs
  /\ loop' = "ran all epochs"
  /\ UNCHANGED <<heap, pipeVars, paramVars, imageVars, mainVars, num_epochs, epoch,
                 best_validation_loss, val_losses>>

NextTraining == (\E val_loss \in LossValues : Epoch(val_loss)) \/ LoopEnds

SpecTraining == InitTraining /\ [][NextTraining]_vars

\* epoch e (0-based) did not improve: its loss is >= an earlier epoch's loss
FailsToImprove(e) == \E j \in 1..e : val_losses[e + 1] >= val_losses[j]

\* C7 (as claimed): the loop halts at the first epoch whose validation loss is
\* >= the best loss of the earlier epochs, never at an epoch whose loss is
\* strictly lower than every earlier one (epoch 0 has no earlier epoch), and
\* otherwise runs all num_epochs epochs
C7_StopsAtFirstNonImprovement ==
  /\ loop = "stopped early" =>
       /\ FailsToImprove(Len(val_losses) - 1)
       /\ \A e \in 0..(Len(val_losses) - 2) : ~FailsToImprove(e)
  /\ loop = "running" => \A e \in 0..(Len(val_losses) - 1) : ~FailsToImprove(e)
  /\ loop = "ran all epochs" =>
       /\ Len(val_losses) = num_epochs
       /\ \A e \in 0..(Len(val_losses) - 1) : ~FailsToImprove(e)

\* ------------------------------------------- columns_to_image
\* a row of 784 pixel columns: all zeros, or one lit pixel
Pixels(p, v) == Stored([i \in 1..(ImageSide * ImageSide) |-> IF i = p THEN v ELSE 0])

InitImage ==
  /\ InitHeap /\ IdlePipeline /\ IdleParams /\ IdleTraining /\ IdleMain
  /\ \E p \in 0..(ImageSide * ImageSide), v \in 1..MaxPixel : columns = Pixels(p, v)
  /\ image = NoCall

ColumnsToImage ==
  /\ ~image.made
  /\ image' = [made |-> TRUE] @@ columns_to_image(columns)
  /\ UNCHANGED <<heap, pipeVars, paramVars, trainVars, mainVars, columns>>

NextImage == ColumnsToImage

SpecImage == InitImage /\ [][NextImage]_vars

\* C10: for a 784-item sequence columns_to_image returns 28 rows of 28 cells
\* and cell (r, c) is item 28 * r + c of the sequence; 784 zeros give an
\* all-zero image
C10_RowMajorImage ==
  image.made =>
    /\ image.ok
    /\ Len(image.image) = ImageSide
    /\ \A r \in 0..(ImageSide - 1) :
         /\ Len(image.image[r + 1]) = ImageSide
         /\ \A c \in 0..(ImageSide - 1) :
              image.image[r + 1][c + 1] = columns[ImageSide * r + c + 1]
    /\ (\A i \in DOMAIN columns : columns[i] = 0) =>
         \A r \in 1..ImageSide : \A c \in 1..ImageSide : image.image[r][c] = 0

\* an image has been made of a row whose lit pixel is off the diagonal, and
\* one of the all-zero row
C10_Witness ==
  /\ image.made /\ image.ok
  /\ columns[2] # 0

C10_WitnessZeros ==
  /\ image.made /\ image.ok
  /\ \A i \in DOMAIN columns : columns[i] = 0

\* ------------------------------------------- main.py: main, kfold_prediction
OPTUNA_STUDY_DIR == "./optuna_results.pkl"

\* the objective's StratifiedKFold(n_splits=5)
SearchSplits == 5

\* the splits StratifiedKFold(n_splits=k).split may yield for n rows: every
\* row is in the validation part of exactly one fold and no part is empty
\* (row i is validated in fold test_folds[i]); which rows go where depends on
\* the labels
Splits(n, k) == {tf \in [1..n -> 0..(k - 1)] : \A f \in 0..(k - 1) : \E i \in 1..n : tf[i] = f}

\* train_idx and val_idx of a fold, as 0-based positions
TrainIdx(tf, fold) == Positions(Len(tf), {i \in 0..(Len(tf) - 1) : tf[i + 1] # fold})

ValIdx(tf, fold) == Positions(Len(tf), {i \in 0..(Len(tf) - 1) : tf[i + 1] = fold})

\* np.empty((k, n)): no cell holds a written value yet
Empty(k, n) == Stored([f \in 1..k |-> Stored([j \in 1..n |-> [value |-> 0, writes |-> 0]])])

\* the assignment written to the first row of the table whatever the fold
StoreRow_first_row(table, fold, proba) ==
  [table EXCEPT ![1] = Stored([j \in DOMAIN proba |->
                                 [value |-> proba[j], writes |-> table[1][j].writes + 1]])]

\* test_predictions[fold_idx, :] = proba
StoreRow(table, fold, proba) ==
  [table EXCEPT ![fold + 1] =
     Stored([j \in DOMAIN proba |->
               [value |-> proba[j], writes |-> table[fold + 1][j].writes + 1]])]

\* the cells of the table never written: reading one yields whatever the
\* memory holds
Unwritten(table) ==
  {c \in (DOMAIN table) \X (1..Len(table[1])) : table[c[1]][c[2]].writes = 0}

\* test_predictions.mean(axis=0), with memory[c] the content of unwritten cell c
MeanAxis0(table, memory) ==
  LET Read(f, j) == IF table[f][j].writes = 0 THEN memory[<<f, j>>] ELSE table[f][j].value
  IN Stored([j \in 1..Len(table[1]) |->
               Ratio(SumSeq(Stored([f \in DOMAIN table |-> Read(f, j)])), Len(table))])

\* the probabilities predict_proba may return, as whole numbers
ProbLevels == {0, 1}

\* the fit and transform calls of one data_pipeline call, each with the fold
\* and the split the call was made for and the row labels of the frame passed
Tag(calls, fold, split, df) ==
  Stored([i \in DOMAIN calls |->
            [op |-> calls[i].op, obj |-> calls[i].obj, rows |-> calls[i].rows,
             fold |-> fold, split |-> split, frame |-> df.index]])

\* main has read train.csv and test.csv and dropped the label column; the
\* table has at least as many rows as kfold_prediction makes folds and, when
\* the search is to run, as the objective makes folds
Init ==
  /\ InitHeap /\ IdlePipeline /\ IdleParams /\ IdleTraining /\ IdleImage /\ IdleKfold
  /\ pc = "main"
  /\ optimize \in BOOLEAN
  /\ \E n \in 2..MaxRows :
       X = ReadCsv(TrainRows, IF optimize THEN Max2(n, SearchSplits) ELSE n)
  /\ X_test = ReadCsv(TestRows, Len(TestRows))
  /\ num_folds \in 2..Min2(MaxFolds, Len(X.rows))

Others == <<pipeVars, trainVars, imageVars>>

Fail(err) ==
  /\ pc' = "failed"
  /\ error' = err

\* main, --optimize given:  X, _, _ = data_pipeline(X)
MainPipeline ==
  /\ pc = "main" /\ optimize
  /\ \E r \in {data_pipeline(X, TRUE, DEFAULT_SCALER, DEFAULT_PIPELINE, heap)} :
     /\ heap' = r.heap
     /\ events' = events \o Tag(r.calls, -1, "all", X)
     /\ IF r.ok THEN X' = r.out /\ pc' = "optimize" /\ error' = error
        ELSE X' = r.caller /\ Fail(r.err)
     /\ UNCHANGED <<Others, paramVars, optimize, X_test, num_folds, test_folds, fold_idx,
                    X_train, X_val, test, encoder, scaler, test_predictions, predicted,
                    search_runs, search, validated, df_final, submission>>

\* the positions in events of the transform calls of the data_pipeline call
\* that main made on the whole table
WholeTableTransforms ==
  {i \in DOMAIN events : events[i].split = "all" /\ events[i].op = "transform"}

\* main, --optimize given:  optimize(X.values, y.values, OPTUNA_STUDY_DIR); the
\* objective splits the matrix it is given with StratifiedKFold(n_splits=5)
SearchEnter ==
  /\ pc = "optimize"
  /\ \E tf \in Splits(Len(X.rows), SearchSplits) :
       search' = [folds |-> tf, trial |-> 1, fold |-> 0]
  /\ pc' = "search"
  /\ UNCHANGED <<heap, Others, paramVars, optimize, X, X_test, num_folds, test_folds,
                 fold_idx, X_train, X_val, test, encoder, scaler, test_predictions,
                 predicted, events, search_runs, validated, df_final, submission, error>>

\* one fold of one trial of _optimize: the model is fit on X[train_idx] and
\* scored on X[val_idx]; row p of the matrix is row p of the table main passed
\* to data_pipeline
SearchFold ==
  /\ pc = "search"
  /\ search.trial <= MaxTrials
  /\ \E made \in {WholeTableTransforms}, val_idx \in {ValIdx(search.folds, search.fold)} :
       validated' =
         [made |-> TRUE, where |-> "search", fold |-> search.fold,
          rows |-> Stored([i \in DOMAIN val_idx |->
                             events[CHOOSE j \in made : TRUE].frame[val_idx[i] + 1]]),
          transforms |-> made]
  /\ search' = IF search.fold + 1 < SearchSplits
                THEN [search EXCEPT !.fold = @ + 1]
                ELSE [search EXCEPT !.trial = @ + 1, !.fold = 0]
  /\ UNCHANGED <<heap, Others, paramVars, optimize, X, X_test, num_folds, test_folds,
                 fold_idx, X_train, X_val, test, encoder, scaler, test_predictions,
                 predicted, events, search_runs, df_final, submission, error, pc>>

\* main, --optimize given: the trials are over, optimize dumps the study and
\* returns, then kfold_prediction is called with hyperparameters=OPTUNA_STUDY_DIR
MainOptimize ==
  /\ pc = "search"
  /\ search.trial > MaxTrials
  /\ search_runs' = search_runs + 1
  /\ search' = NoSearch
  /\ validated' = NoCall
  /\ \E t \in 1..MaxTrials : study_file' = SavedStudy([m \in Models |-> t])
  /\ hyperparameters' = OPTUNA_STUDY_DIR
  /\ pc' = "kfold"
  /\ UNCHANGED <<heap, Others, built, optimize, X, X_test, num_folds, test_folds,
                 fold_idx, X_train, X_val, test, encoder, scaler, test_predictions,
                 predicted, events, df_final, submission, error>>

\* main, no --optimize:  kfold_prediction(X, y, X_test)
MainDefault ==
  /\ pc = "main" /\ ~optimize
  /\ pc' = "kfold"
  /\ UNCHANGED <<heap, Others, paramVars, optimize, X, X_test, num_folds, test_folds,
                 fold_idx, X_train, X_val, test, encoder, scaler, test_predictions,
                 predicted, events, search_runs, search, validated, df_final, submission, error>>

\* kfold_prediction up to the loop: the splitter, the table, the first split
KfoldEnter ==
  /\ pc = "kfold"
  /\ test_predictions' = Empty(num_folds, Len(X_test.rows))
  /\ fold_idx' = 0
  /\ \E tf \in Splits(Len(X.rows), num_folds) : test_folds' = tf
  /\ pc' = "fold train"
  /\ UNCHANGED <<heap, Others, paramVars, optimize, X, X_test, num_folds, X_train, X_val,
                 test, encoder, scaler, predicted, events, search_runs, search, validated, df_final,
                 submission, error>>

\* X_train = X.iloc[train_idx];  X_train, encoder, scaler = data_pipeline(X_train)
FoldTrain ==
  /\ pc = "fold train"
  /\ \E r \in {data_pipeline(Iloc(X, TrainIdx(test_folds, fold_idx)), TRUE,
                              DEFAULT_SCALER, DEFAULT_PIPELINE, heap)} :
     /\ heap' = r.heap
     /\ events' = events \o Tag(r.calls, fold_idx, "train", r.caller)
     /\ IF r.ok
        THEN /\ X_train' = r.out /\ encoder' = r.encoder /\ scaler' = r.scaler
             /\ pc' = "fold val" /\ error' = error
        ELSE /\ UNCHANGED <<X_train, encoder, scaler>>
             /\ Fail(r.err)
     /\ UNCHANGED <<Others, paramVars, optimize, X, X_test, num_folds, test_folds,
                    fold_idx, X_val, test, test_predictions, predicted, search_runs, search, validated,
                    df_final, submission>>

\* X_val = X.iloc[val_idx]
\* X_val, _, _ = data_pipeline(X_val, is_train=False, encoder=encoder, scaler=scaler)
FoldVal ==
  /\ pc = "fold val"
  /\ \E r \in {data_pipeline(Iloc(X, ValIdx(test_folds, fold_idx)), FALSE, scaler,
                              encoder, heap)} :
     /\ heap' = r.heap
     /\ events' = events \o Tag(r.calls, fold_idx, "val", r.caller)
     /\ IF r.ok THEN X_val' = r.out /\ pc' = "fold fit" /\ error' = error
        ELSE X_val' = X_val /\ Fail(r.err)
     /\ UNCHANGED <<Others, paramVars, optimize, X, X_test, num_folds, test_folds,
                    fold_idx, X_train, test, encoder, scaler, test_predictions,
                    predicted, search_runs, search, validated, df_final, submission>>

\* the positions in events of the transform calls that produced the fold's X_val
FoldValTransforms ==
  {i \in DOMAIN events :
     events[i].fold = fold_idx /\ events[i].split = "val" /\ events[i].op = "transform"}

\* model = build_model(hyperparameters), model.fit, the fold's scores on X_val
FoldFit ==
  /\ pc = "fold fit"
  /\ \E m \in {build_model(hyperparameters, study_file)} :
     /\ built' = [made |-> TRUE] @@ m
     /\ IF m.ok
        THEN /\ pc' = "fold test" /\ error' = error
             /\ \E made \in {FoldValTransforms} :
                  validated' =
                    [made |-> TRUE, where |-> "kfold", fold |-> fold_idx,
                     rows |-> events[CHOOSE j \in made : TRUE].frame,
                     transforms |-> made]
        ELSE validated' = validated /\ Fail(m.err)
     /\ UNCHANGED <<heap, Others, hyperparameters, study_file, optimize, X, X_test,
                    num_folds, test_folds, fold_idx, X_train, X_val, test, encoder,
                    scaler, test_predictions, predicted, events, search_runs, search,
                    df_final, submission>>

\* test, _, _ = data_pipeline(X_test, is_train=False, encoder=encoder, scaler=scaler)
FoldTest ==
  /\ pc = "fold test"
  /\ \E r \in {data_pipeline(X_test, FALSE, scaler, encoder, heap)} :
     /\ heap' = r.heap
     /\ events' = events \o Tag(r.calls, fold_idx, "test", X_test)
     /\ X_test' = r.caller
     /\ IF r.ok THEN test' = r.out /\ pc' = "fold store" /\ error' = error
        ELSE test' = test /\ Fail(r.err)
     /\ UNCHANGED <<Others, paramVars, optimize, X, num_folds, test_folds, fold_idx,
                    X_train, X_val, encoder, scaler, test_predictions, predicted,
                    search_runs, search, validated, df_final, submission>>

\* test_predictions[fold_idx, :] = model.predict_proba(test)[:, 1], and the
\* loop goes on to the next fold
FoldStore ==
  /\ pc = "fold store"
  /\ \E proba \in [1..Len(test.rows) -> ProbLevels] :
       /\ predicted' = Append(predicted, proba)
       /\ test_predictions' = StoreRow(test_predictions, fold_idx, proba)
  /\ fold_idx' = fold_idx + 1
  /\ pc' = IF fold_idx + 1 < num_folds THEN "fold train" ELSE "mean"
  /\ UNCHANGED <<heap, Others, paramVars, optimize, X, X_test, num_folds, test_folds,
                 X_train, X_val, test, encoder, scaler, events, search_runs, search, validated, df_final,
                 submission, error>>

\* y_pred = test_predictions.mean(axis=0); df_final = X_test[["id"]];
\* df_final["Exited"] = y_pred; return df_final
KfoldReturn ==
  /\ pc = "mean"
  /\ \E memory \in [Unwritten(test_predictions) -> ProbLevels] :
       df_final' = SetColumn(SelectColumns(X_test, <<"id">>), "Exited",
                             MeanAxis0(test_predictions, memory))
  /\ pc' = "to_csv"
  /\ UNCHANGED <<heap, Others, paramVars, optimize, X, X_test, num_folds, test_folds,
                 fold_idx, X_train, X_val, test, encoder, scaler, test_predictions,
                 predicted, events, search_runs, search, validated, submission, error>>

\* .to_csv("./submission.csv", index=False)
ToCsv ==
  /\ pc = "to_csv"
  /\ submission' = df_final
  /\ pc' = "done"
  /\ UNCHANGED <<heap, Others, paramVars, optimize, X, X_test, num_folds, test_folds,
                 fold_idx, X_train, X_val, test, encoder, scaler, test_predictions,
                 predicted, events, search_runs, search, validated, df_final, error>>

Next ==
  \/ MainPipeline
  \/ SearchEnter
  \/ SearchFold
  \/ MainOptimize
  \/ MainDefault
  \/ KfoldEnter
  \/ FoldTrain
  \/ FoldVal
  \/ FoldFit
  \/ FoldTest
  \/ FoldStore
  \/ KfoldReturn
  \/ ToCsv

Spec == Init /\ [][Next]_vars

\* the positions in events of the calls of op made in fold f on a transformer
\* of the given kind
CallsIn(f, kind, op) ==
  {i \in DOMAIN events :
     events[i].fold = f /\ events[i].obj \in kind /\ events[i].op = op}

\* C1: in every fold of kfold_prediction each of the two transformers is fit
\* exactly once, on the fold's training split, before the transforms of the
\* fold's validation and test splits, and no validation or test transform
\* calls fit (a fold under way has made at most that one fit; a fold that has
\* ended has made it and both transforms)
C1_OneFitPerFoldOnTrain ==
  \A f \in 0..fold_idx : \A kind \in {Encoders, Scalers} :
    /\ Cardinality(CallsIn(f, kind, "fit")) <= 1
    /\ \A i \in CallsIn(f, kind, "fit") :
         /\ events[i].split = "train"
         /\ events[i].frame = Iloc(X, TrainIdx(test_folds, f)).index
         /\ Len(events[i].rows) = Len(events[i].frame)
    /\ \A j \in CallsIn(f, kind, "transform") :
         events[j].split \in {"val", "test"} =>
           \E i \in CallsIn(f, kind, "fit") : i < j /\ events[i].obj = events[j].obj
    /\ f < fold_idx =>
         /\ Cardinality(CallsIn(f, kind, "fit")) = 1
         /\ \A split \in {"val", "test"} :
              \E j \in CallsIn(f, kind, "transform") : events[j].split = split

\* every fold has run and the submission is written
C1_Witness ==
  /\ pc = "done" /\ fold_idx = num_folds /\ num_folds >= 2
  /\ \A f \in 0..(num_folds - 1) : CallsIn(f, Scalers, "fit") # {}

\* C2 (as claimed): a transformer object fit or used in one fold is not fit
\* or used in another fold, nor in another data_pipeline call of the process
C2_TransformersFoldLocal ==
  \A i, j \in DOMAIN events : events[i].obj = events[j].obj => events[i].fold = events[j].fold

\* C6: the Exited value of test row j is the unweighted mean over all folds of
\* the fold's predicted probability for row j, paired with row j's id, and every
\* (fold, row) cell of the table was written exactly once before the mean
C6_MeanOfFoldPredictions ==
  pc \in {"to_csv", "done"} =>
    /\ Len(predicted) = num_folds
    /\ Len(test_predictions) = num_folds
    /\ df_final.columns = <<"id", "Exited">>
    /\ Len(df_final.rows) = Len(TestRows)
    /\ \A j \in 1..Len(TestRows) :
         /\ df_final.rows[j]["id"] = TestRows[j]["id"]
         /\ df_final.rows[j]["Exited"] =
              Ratio(SumSeq([f \in 1..num_folds |-> predicted[f][j]]), num_folds)
         /\ \A f \in 1..num_folds :
              /\ test_predictions[f][j].writes = 1
              /\ test_predictions[f][j].value = predicted[f][j]

\* a submission whose first row averages folds that disagree
C6_Witness ==
  /\ pc = "done" /\ submission = df_final
  /\ \E f, g \in 1..num_folds : predicted[f][1] # predicted[g][1]
  /\ submission.rows[1]["Exited"].den = num_folds

\* C9 (as claimed): with --optimize the search runs once and kfold_prediction
\* then runs to completion on records that still have every raw column, with
\* the saved search result; without it no search runs and the defaults are used
C9_SearchThenKfoldCompletes ==
  /\ pc # "failed"
  /\ pc \notin {"main", "optimize", "search"} =>
       /\ HasAll(X, RawColumns)
       /\ search_runs = (IF optimize THEN 1 ELSE 0)
       /\ hyperparameters = (IF optimize THEN OPTUNA_STUDY_DIR ELSE None)
  /\ pc = "done" => submission = df_final /\ df_final # NoFrame

\* the positions in events of the fit that the transformer of transform call j
\* was last given before that call
FitBefore(j) ==
  {i \in 1..(j - 1) :
     /\ events[i].op = "fit" /\ events[i].obj = events[j].obj
     /\ \A k \in (i + 1)..(j - 1) :
          ~(events[k].op = "fit" /\ events[k].obj = events[j].obj)}

\* C11 (as claimed): in every cross-validated evaluation, in kfold_prediction
\* and in the search objective, no row of a fold's validation split is among
\* the rows on which the text reducer or the scaler that transformed it was fit
C11_ValidationRowsNotInFit ==
  validated.made =>
    \A j \in validated.transforms : \A i \in FitBefore(j) :
      Range(events[i].frame) \cap Range(validated.rows) = {}

\* the category of feature f that raw row r has
CategoryOf(r, f) == IF f = "AgeCategory" THEN AgeCategory(r) ELSE r[f]

\* every encoded category column of the matrix holds 1 in exactly the rows
\* whose source row has that category
OneHot(matrix, source) ==
  \A i \in DOMAIN matrix.rows : \A k \in DOMAIN EncodedFeatures :
    \A l \in DOMAIN SortedLevels(EncodedFeatures[k]) :
      Has(matrix, DummyName(EncodedFeatures[k], SortedLevels(EncodedFeatures[k])[l])) =>
        matrix.rows[i][DummyName(EncodedFeatures[k], SortedLevels(EncodedFeatures[k])[l])]
          = (IF CategoryOf(source.rows[i], EncodedFeatures[k])
                  = SortedLevels(EncodedFeatures[k])[l]
             THEN 1 ELSE 0)

\* C12 (as claimed): within a fold the matrices of the training, validation
\* and test splits have the same columns in the same order, and each encoded
\* category column holds 1 in exactly the rows that have the category
C12_SameColumnsOneHot ==
  pc = "fold store" =>
    /\ X_train.columns = X_val.columns
    /\ X_val.columns = test.columns
    /\ OneHot(X_train, Iloc(X, TrainIdx(test_folds, fold_idx)))
    /\ OneHot(X_val, Iloc(X, ValIdx(test_folds, fold_idx)))
    /\ OneHot(test, X_test)

\* C12, second part alone: the one-hot reading of the encoded columns
C12_OneHotOnly ==
  pc = "fold store" =>
    /\ OneHot(X_train, Iloc(X, TrainIdx(test_folds, fold_idx)))
    /\ OneHot(X_val, Iloc(X, ValIdx(test_folds, fold_idx)))
    /\ OneHot(test, X_test)

====
